---- MODULE Spec2Model ----
(***************************************************************************)
(* Model of src/main.go: the /address and /address/access_logs handlers    *)
(* of the postal-code service, the access_logs table they share, and the   *)
(* CommonPrefix function.                                                  *)
(*                                                                         *)
(* Go strings are sequences of bytes (0..255); []rune(s) and string(r) are *)
(* the UTF-8 decoding and encoding the Go runtime performs.  Three         *)
(* specifications are given: Spec runs NReq requests concurrently against  *)
(* the table, SpecOne runs one /address request against every geocoding    *)
(* answer within MaxLocs, and SpecCP runs CommonPrefix statement by        *)
(* statement on every input list within MaxStrs and MaxRunes.              *)
(***************************************************************************)
EXTENDS Integers, Sequences, FiniteSets, TLC

(* ------------------------------ bounds -------------------------------- *)
\* number of HTTP requests in flight over a run
NReq == 2
\* rows already in access_logs when the process starts
MaxInitRows == 2
\* length, in runes, of an address string given to CommonPrefix in SpecCP
MaxRunes == 2
\* length of the list given to CommonPrefix in SpecCP
MaxStrs == 3

(* --------------------------- Go strings ------------------------------- *)
\* U+FFFD, what the runtime decodes an invalid byte to
RuneError == 65533

IsCont(b) == b >= 128 /\ b <= 191

\* the rune starting at byte p (1-based) of s and its width in bytes
DecodeRuneAt(s, p) ==
  LET n  == Len(s)
      b0 == s[p]
      b1 == IF p + 1 <= n THEN s[p + 1] ELSE 0
      b2 == IF p + 2 <= n THEN s[p + 2] ELSE 0
      b3 == IF p + 3 <= n THEN s[p + 3] ELSE 0
      bad == [rune |-> RuneError, size |-> 1]
  IN  IF b0 < 128 THEN [rune |-> b0, size |-> 1]
      ELSE IF b0 >= 194 /\ b0 <= 223
        THEN IF IsCont(b1)
               THEN [rune |-> (b0 - 192) * 64 + (b1 - 128), size |-> 2]
               ELSE bad
      ELSE IF b0 >= 224 /\ b0 <= 239
        THEN IF /\ IsCont(b1) /\ IsCont(b2)
                /\ (b0 = 224 => b1 >= 160)
                /\ (b0 = 237 => b1 <= 159)
               THEN [rune |-> (b0 - 224) * 4096 + (b1 - 128) * 64 + (b2 - 128),
                     size |-> 3]
               ELSE bad
      ELSE IF b0 >= 240 /\ b0 <= 244
        THEN IF /\ IsCont(b1) /\ IsCont(b2) /\ IsCont(b3)
                /\ (b0 = 240 => b1 >= 144)
                /\ (b0 = 244 => b1 <= 143)
               THEN [rune |-> (b0 - 240) * 262144 + (b1 - 128) * 4096
                                + (b2 - 128) * 64 + (b3 - 128),
                     size |-> 4]
               ELSE bad
      ELSE bad

RECURSIVE RunesFrom(_, _)
RunesFrom(s, p) ==
  IF p > Len(s) THEN <<>>
  ELSE LET d == DecodeRuneAt(s, p)
       IN  <<d.rune>> \o RunesFrom(s, p + d.size)

\* []rune(s)
Runes(s) == RunesFrom(s, 1)

\* the UTF-8 bytes of one rune
EncodeRune(r) ==
  IF r >= 0 /\ r < 128 THEN <<r>>
  ELSE IF r >= 128 /\ r < 2048 THEN <<192 + (r \div 64), 128 + (r % 64)>>
  ELSE IF r < 0 \/ r > 1114111 \/ (r >= 55296 /\ r <= 57343)
    THEN <<239, 191, 189>>
  ELSE IF r < 65536
    THEN <<224 + (r \div 4096), 128 + ((r \div 64) % 64), 128 + (r % 64)>>
  ELSE <<240 + (r \div 262144), 128 + ((r \div 4096) % 64),
         128 + ((r \div 64) % 64), 128 + (r % 64)>>

RECURSIVE String(_)
\* string(runes)
String(runes) ==
  IF runes = <<>> THEN <<>>
  ELSE EncodeRune(Head(runes)) \o String(Tail(runes))

\* "Error: func commonPrefix"
ErrorStr ==
  <<69, 114, 114, 111, 114, 58, 32, 102, 117, 110, 99, 32,
    99, 111, 109, 109, 111, 110, 80, 114, 101, 102, 105, 120>>

\* "None"
NoneStr == <<78, 111, 110, 101>>

(* ---------------------------- CommonPrefix ---------------------------- *)
\* Shorten without its test: the prefix is never shortened
ShortenNever(prefix, strRune) == prefix

\* if len(strRune) < len(prefix) { prefix = prefix[:len(strRune)] }
Shorten(prefix, strRune) ==
  IF Len(strRune) < Len(prefix) THEN SubSeq(prefix, 1, Len(strRune)) ELSE prefix

\* prefix[i] != strRune[i], i counted from 0 as in the source
Differs(prefix, strRune, i) == prefix[i + 1] # strRune[i + 1]

\* Cut one too far: prefix[:i+1]
CutInclusive(prefix, i) == SubSeq(prefix, 1, i + 1)

\* prefix[:i]
Cut(prefix, i) == SubSeq(prefix, 1, i)

\* Finish without the test for the empty prefix
FinishNoSentinel(prefix) == String(prefix)

\* the final test of the function
Finish(prefix) == IF Len(prefix) = 0 THEN NoneStr ELSE String(prefix)

RECURSIVE InnerLoop(_, _, _)
\* for i := range prefix { ... }, from index i on
InnerLoop(prefix, strRune, i) ==
  IF i >= Len(prefix) THEN prefix
  ELSE IF Differs(prefix, strRune, i) THEN Cut(prefix, i)
  ELSE InnerLoop(prefix, strRune, i + 1)

RECURSIVE OuterLoop(_, _, _)
\* for _, str := range strs { ... }, from element k (0-based) on
OuterLoop(strs, prefix, k) ==
  IF k >= Len(strs) THEN prefix
  ELSE LET strRune == Runes(strs[k + 1])
       IN  OuterLoop(strs, InnerLoop(Shorten(prefix, strRune), strRune, 0), k + 1)

\* CommonPrefix as one call, as the /address handler uses it
CommonPrefix(strs) ==
  IF Len(strs) = 0 THEN ErrorStr
  ELSE Finish(OuterLoop(strs, Runes(strs[1]), 0))

(* ------------------------- the geocoding API -------------------------- *)
\* var tokyoX, tokyoY, in units of 1e-7 degree
tokyoX == 1397673068
tokyoY == 356809591

\* strconv.ParseFloat on the coordinate strings of the model: the value in
\* units of 1e-7 degree, and whether an error is returned (value 0 then)
ParseFloat(s) ==
  CASE s = "139.7528"  -> [val |-> 1397528000, err |-> FALSE]
    [] s = "35.685175" -> [val |-> 356851750, err |-> FALSE]
    [] OTHER           -> [val |-> 0, err |-> TRUE]

\* haversine.Distance from (lat1, lon1) to (lat2, lon2), in metres, on the
\* coordinates the model's locations can yield (earth radius 6371 km)
HaversineM(lat1, lon1, lat2, lon2) ==
  CASE lat2 = lat1 /\ lon2 = lon1               -> 0
    [] lat2 = 356851750 /\ lon2 = 1397528000     -> 1392
    [] lat2 = 356851750 /\ lon2 = 0              -> 11053503
    [] lat2 = 0 /\ lon2 = 1397528000             -> 3967542
    [] OTHER                                     -> 14269037

\* one entry of response.location, as json.Unmarshal fills a Location
LocPalaceA ==
  [prefecture |-> String(<<26481>>), city |-> String(<<20140>>),
   town |-> String(<<97>>), x |-> "139.7528", y |-> "35.685175"]
LocPalaceB ==
  [prefecture |-> String(<<26481>>), city |-> String(<<20140>>),
   town |-> String(<<98>>), x |-> "abc", y |-> "35.685175"]
LocBlank ==
  [prefecture |-> <<>>, city |-> <<>>, town |-> <<>>, x |-> "", y |-> ""]
Locations == {LocPalaceA, LocPalaceB, LocBlank}

\* longest location list a geocoding response carries
MaxLocs == 2

SeqsUpTo(S, n) == UNION {[1..m -> S] : m \in 0..n}

\* the bodies the geocoding API can answer with: not JSON, an envelope
\* without a location key, or an envelope with a location list
Bodies ==
  {[kind |-> "malformed", location |-> <<>>],
   [kind |-> "no_location", location |-> <<>>]}
  \cup {[kind |-> "envelope", location |-> l] : l \in SeqsUpTo(Locations, MaxLocs)}

\* three of them, for the runs with several requests in flight
FewBodies ==
  {[kind |-> "malformed", location |-> <<>>],
   [kind |-> "no_location", location |-> <<>>],
   [kind |-> "envelope", location |-> <<LocPalaceA, LocPalaceB>>]}

\* no body was read
NoBody == [kind |-> "malformed", location |-> <<>>]

\* Unmarshal that takes an envelope without a location key for an error
UnmarshalStrict(body) ==
  IF body.kind \in {"malformed", "no_location"}
    THEN [err |-> TRUE, location |-> <<>>]
    ELSE [err |-> FALSE, location |-> body.location]

\* json.Unmarshal(body, &apiResponse)
Unmarshal(body) ==
  IF body.kind = "malformed"
    THEN [err |-> TRUE, location |-> <<>>]
    ELSE [err |-> FALSE, location |-> body.location]

\* addresses[i] = location.Prefecture + location.City + location.Town
Addresses(location) ==
  [i \in 1..Len(location) |->
     location[i].prefecture \o location[i].city \o location[i].town]

\* the distance of one location to Tokyo Station, errors of ParseFloat dropped
LocDistance(loc) ==
  HaversineM(tokyoY, tokyoX, ParseFloat(loc.y).val, ParseFloat(loc.x).val)

RECURSIVE MaxDistance(_, _)
\* the loop "if km > maxDistance { maxDistance = km }", from maxDistance = acc
MaxDistance(location, acc) ==
  IF location = <<>> THEN acc
  ELSE LET km == LocDistance(Head(location))
       IN  MaxDistance(Tail(location), IF km > acc THEN km ELSE acc)

\* math.Round(maxDistance*10) / 10 on a distance in metres
RoundTenthKm(m) == ((m + 50) \div 100) * 100

\* the AppResponse the handler builds
BuildAppResponse(postalCode, location) ==
  [kind |-> "app",
   postal_code |-> postalCode,
   hit_count |-> Len(location),
   address |-> CommonPrefix(Addresses(location)),
   tokyo_sta_distance |-> RoundTenthKm(MaxDistance(location, 0))]

\* map[string]string{"error": err.Error()}
ErrorBody == [kind |-> "error"]

(* ------------------------- the access_logs table ---------------------- *)
PostalCodes == {"", "1000001"}

\* an insert that updates the row of the postal code when there is one
InsertRowUpsert(table, postalCode, t) ==
  IF \E i \in DOMAIN table : table[i].postal_code = postalCode
    THEN [i \in DOMAIN table |->
            IF table[i].postal_code = postalCode
              THEN [postal_code |-> postalCode, created_at |-> t]
              ELSE table[i]]
    ELSE Append(table, [postal_code |-> postalCode, created_at |-> t])

\* an insert that writes the row twice
InsertRowTwice(table, postalCode, t) ==
  Append(Append(table, [postal_code |-> postalCode, created_at |-> t]),
         [postal_code |-> postalCode, created_at |-> t])

\* INSERT INTO access_logs (postal_code, created_at) VALUES ($1, $2)
InsertRow(table, postalCode, t) ==
  Append(table, [postal_code |-> postalCode, created_at |-> t])

\* COUNT(*) of one group
CountOf(table, p) == Cardinality({i \in DOMAIN table : table[i].postal_code = p})

\* GROUP BY postal_code
Groups(table) ==
  {[postal_code |-> table[i].postal_code,
    request_count |-> CountOf(table, table[i].postal_code)] : i \in DOMAIN table}

\* ORDER BY request_count ASC
OrderedAsc(rows) ==
  \A i, j \in DOMAIN rows : i < j => rows[i].request_count <= rows[j].request_count

\* ORDER BY request_count DESC
OrderedDesc(rows) ==
  \A i, j \in DOMAIN rows : i < j => rows[i].request_count >= rows[j].request_count

\* the result sets the SELECT may return: the groups in any order the
\* ORDER BY clause allows
QueryResults(table) ==
  LET g == Groups(table)
      n == Cardinality(g)
  IN  {rows \in [1..n -> g] :
         /\ \A i, j \in 1..n : i # j => rows[i] # rows[j]
         /\ OrderedDesc(rows)}

\* a Go slice of AccessLog: nil until the first append
NilSlice == [nil |-> TRUE, elems |-> <<>>]
GoAppend(slice, x) == [nil |-> FALSE, elems |-> Append(slice.elems, x)]

\* encoding/json of a slice: null for a nil slice, an array otherwise
JsonSlice(slice) ==
  IF slice.nil THEN [type |-> "null", elems |-> <<>>]
  ELSE [type |-> "array", elems |-> slice.elems]

\* map[string]interface{}{"access_logs": logs}
LogsBody(logs) == [kind |-> "logs", access_logs |-> JsonSlice(logs)]

(* ------------------------------- state -------------------------------- *)
VARIABLES
  access_logs,  \* the rows of table access_logs, in insertion order
  now,          \* what time.Now() returns next; it moves on at every read
  req,          \* per request: the handler's locals, position and response
  cpStrs,       \* CommonPrefix: the argument strs
  cpPrefix,     \* CommonPrefix: prefix
  cpStrRune,    \* CommonPrefix: strRune
  cpK,          \* CommonPrefix: index of the outer range loop
  cpI,          \* CommonPrefix: index of the inner range loop
  cpN,          \* CommonPrefix: len(prefix) as the inner range evaluated it
  cpPc,         \* CommonPrefix: position in the function
  cpResult      \* CommonPrefix: the value returned

hvars == <<access_logs, now, req>>
cpvars == <<cpStrs, cpPrefix, cpStrRune, cpK, cpI, cpN, cpPc, cpResult>>
vars == <<access_logs, now, req, cpStrs, cpPrefix, cpStrRune, cpK, cpI, cpN,
          cpPc, cpResult>>

Reqs == 1..NReq

\* a request the server has not received yet
IdleReq ==
  [kind |-> "none", pc |-> "idle", postalCode |-> "",
   nInsert |-> 0, nGet |-> 0,
   insertOk |-> FALSE, getOk |-> FALSE, readOk |-> FALSE, parseOk |-> FALSE,
   body |-> [kind |-> "none", location |-> <<>>], location |-> <<>>,
   seen |-> <<>>, rows |-> <<>>, logs |-> NilSlice,
   nResp |-> 0, status |-> 0, resp |-> [kind |-> "none"]]

\* c.JSON(status, body) followed by the handler's return
Respond(rq, status, body) ==
  [rq EXCEPT !.nResp = @ + 1, !.status = status, !.resp = body, !.pc = "done"]

\* rows written before the process started carry created_at 0
InitTables ==
  {t \in SeqsUpTo([postal_code : PostalCodes, created_at : {0}], MaxInitRows) : TRUE}

HInit ==
  /\ access_logs \in InitTables
  /\ now = 1
  /\ req = [r \in Reqs |-> IdleReq]

CPIdle ==
  /\ cpStrs = <<>>
  /\ cpPrefix = <<>>
  /\ cpStrRune = <<>>
  /\ cpK = 0
  /\ cpI = 0
  /\ cpN = 0
  /\ cpPc = "idle"
  /\ cpResult = <<>>

Init == HInit /\ CPIdle

(* --------------------------- GET /address ----------------------------- *)
\* getAddress going on to the GET whatever db.Exec returned
AfterInsertIgnoringErr(err) == "get"

\* where getAddress goes after db.Exec returned
AfterInsert(err) == IF err THEN "done" ELSE "get"

\* getAddress up to the test of the INSERT's error: c.QueryParam, db.Exec
\* with time.Now(), and the 500 response when db.Exec failed
getAddress_Insert(r) ==
  /\ req[r].pc = "idle"
  /\ \E p \in PostalCodes, err \in BOOLEAN :
       LET rq == [req[r] EXCEPT !.kind = "address", !.postalCode = p,
                                !.nInsert = @ + 1, !.insertOk = ~err]
       IN  /\ access_logs' = IF err THEN access_logs
                             ELSE InsertRow(access_logs, p, now)
           /\ req' = [req EXCEPT ![r] =
                        IF AfterInsert(err) = "done"
                          THEN Respond(rq, 500, ErrorBody)
                          ELSE [rq EXCEPT !.pc = AfterInsert(err)]]
  /\ now' = now + 1

\* the rest of getAddress, answering 500 when a coordinate does not parse
GeocodeAnswerStrict(rq, getErr, readErr, body) ==
  LET u   == Unmarshal(body)
      r1  == [rq EXCEPT !.nGet = @ + 1, !.getOk = ~getErr]
      r2  == [r1 EXCEPT !.readOk = ~readErr,
                        !.body = IF readErr THEN @ ELSE body]
      r3  == [r2 EXCEPT !.parseOk = ~u.err, !.location = u.location]
      bad == \E i \in DOMAIN u.location :
               ParseFloat(u.location[i].x).err \/ ParseFloat(u.location[i].y).err
  IN  IF getErr THEN Respond(r1, 500, ErrorBody)
      ELSE IF readErr THEN Respond(r2, 500, ErrorBody)
      ELSE IF u.err \/ bad THEN Respond(r3, 500, ErrorBody)
      ELSE Respond(r3, 200, BuildAppResponse(rq.postalCode, u.location))

\* what the rest of getAddress answers: getErr, readErr are the errors of
\* http.Get and ioutil.ReadAll, body is what was read
GeocodeAnswer(rq, getErr, readErr, body) ==
  LET u  == Unmarshal(body)
      r1 == [rq EXCEPT !.nGet = @ + 1, !.getOk = ~getErr]
      r2 == [r1 EXCEPT !.readOk = ~readErr,
                       !.body = IF readErr THEN @ ELSE body]
      r3 == [r2 EXCEPT !.parseOk = ~u.err, !.location = u.location]
  IN  IF getErr THEN Respond(r1, 500, ErrorBody)
      ELSE IF readErr THEN Respond(r2, 500, ErrorBody)
      ELSE IF u.err THEN Respond(r3, 500, ErrorBody)
      ELSE Respond(r3, 200, BuildAppResponse(rq.postalCode, u.location))

\* getAddress from http.Get to its return: the GET, ReadAll, json.Unmarshal,
\* the two loops over the locations and the response
getAddress_Geocode(r, bodies) ==
  /\ req[r].pc = "get"
  /\ \/ req' = [req EXCEPT ![r] = GeocodeAnswer(@, TRUE, FALSE, NoBody)]
     \/ req' = [req EXCEPT ![r] = GeocodeAnswer(@, FALSE, TRUE, NoBody)]
     \/ \E b \in bodies :
          req' = [req EXCEPT ![r] = GeocodeAnswer(@, FALSE, FALSE, b)]
  /\ UNCHANGED <<access_logs, now>>

(* ---------------------- GET /address/access_logs ---------------------- *)
RECURSIVE ScanRows(_, _, _)
\* "for rows.Next() { rows.Scan(...); logs = append(logs, log) }" over the
\* first n rows of the result, from logs on
ScanRows(rows, n, logs) ==
  IF n = 0 THEN logs
  ELSE GoAppend(ScanRows(rows, n - 1, logs), rows[n])

\* var logs []AccessLog, the loop over all rows, and the 200 body
LogsAnswer(rq, rows) ==
  Respond([rq EXCEPT !.logs = ScanRows(rows, Len(rows), NilSlice)], 200,
          LogsBody(ScanRows(rows, Len(rows), NilSlice)))

\* the whole handler: the SELECT reads the table once; db.Query, rows.Scan
\* or rows.Err may fail, and each failure answers 500
getAccessLogs(r) ==
  /\ req[r].pc = "idle"
  /\ LET rq == [req[r] EXCEPT !.kind = "access_logs", !.seen = access_logs]
     IN  \/ req' = [req EXCEPT ![r] = Respond(rq, 500, ErrorBody)]
         \/ \E rows \in QueryResults(access_logs) :
              \/ \E n \in 0..Len(rows) :
                   req' = [req EXCEPT ![r] =
                     Respond([rq EXCEPT !.rows = rows,
                                        !.logs = ScanRows(rows, n, NilSlice)],
                             500, ErrorBody)]
              \/ req' = [req EXCEPT ![r] = LogsAnswer([rq EXCEPT !.rows = rows], rows)]
  /\ UNCHANGED <<access_logs, now>>

\* NReq requests in flight, in any interleaving
Next ==
  /\ \/ \E r \in DOMAIN req : getAddress_Insert(r)
     \/ \E r \in DOMAIN req : getAddress_Geocode(r, FewBodies)
     \/ \E r \in DOMAIN req : getAccessLogs(r)
  /\ UNCHANGED cpvars

Spec == Init /\ [][Next]_vars

\* one /address request, against every answer of the geocoding API
InitOne ==
  /\ access_logs \in InitTables
  /\ now = 1
  /\ req = [r \in {1} |-> IdleReq]
  /\ CPIdle

NextOne ==
  /\ \/ getAddress_Insert(1)
     \/ getAddress_Geocode(1, Bodies)
  /\ UNCHANGED cpvars

SpecOne == InitOne /\ [][NextOne]_vars

(* ------------------- CommonPrefix, statement by statement ------------- *)
\* the code points the address strings of SpecCP are written in: two
\* three-byte characters whose encodings differ in the last byte only
Alphabet == {26480, 26481}

\* the address strings: the UTF-8 encodings of up to MaxRunes code points
\* (json.Unmarshal yields valid UTF-8 only)
AddrStrings == {String(rs) : rs \in SeqsUpTo(Alphabet, MaxRunes)}

InitCP ==
  /\ access_logs = <<>>
  /\ now = 1
  /\ req = <<>>
  /\ cpStrs \in SeqsUpTo(AddrStrings, MaxStrs)
  /\ cpPrefix = <<>>
  /\ cpStrRune = <<>>
  /\ cpK = 0
  /\ cpI = 0
  /\ cpN = 0
  /\ cpPc = "start"
  /\ cpResult = <<>>

\* the test of len(strs) and prefix := []rune(strs[0])
CPEnter ==
  /\ cpPc = "start"
  /\ IF Len(cpStrs) = 0
       THEN /\ cpResult' = ErrorStr
            /\ cpPc' = "done"
            /\ UNCHANGED cpPrefix
       ELSE /\ cpPrefix' = Runes(cpStrs[1])
            /\ cpPc' = "outer"
            /\ UNCHANGED cpResult
  /\ UNCHANGED <<cpStrs, cpStrRune, cpK, cpI, cpN>>

\* the head of "for _, str := range strs": either the loop is over and the
\* function returns, or strRune is set, prefix shortened and the inner
\* range starts over the prefix as it is now
CPOuter ==
  /\ cpPc = "outer"
  /\ IF cpK >= Len(cpStrs)
       THEN /\ cpResult' = Finish(cpPrefix)
            /\ cpPc' = "done"
            /\ UNCHANGED <<cpPrefix, cpStrRune, cpI, cpN>>
       ELSE /\ cpStrRune' = Runes(cpStrs[cpK + 1])
            /\ cpPrefix' = Shorten(cpPrefix, cpStrRune')
            /\ cpN' = Len(cpPrefix')
            /\ cpI' = 0
            /\ cpPc' = "inner"
            /\ UNCHANGED cpResult
  /\ UNCHANGED <<cpStrs, cpK>>

\* an index expression a[i] is in range
InRange(a, i) == i >= 0 /\ i < Len(a)

\* one turn of "for i := range prefix": the range is over, or prefix[i] and
\* strRune[i] are compared (a run-time panic when an index is out of range)
CPInner ==
  /\ cpPc = "inner"
  /\ IF cpI >= cpN
       THEN /\ cpK' = cpK + 1
            /\ cpPc' = "outer"
            /\ UNCHANGED <<cpPrefix, cpI>>
       ELSE IF ~(InRange(cpPrefix, cpI) /\ InRange(cpStrRune, cpI))
         THEN /\ cpPc' = "panic"
              /\ UNCHANGED <<cpPrefix, cpI, cpK>>
       ELSE IF Differs(cpPrefix, cpStrRune, cpI)
         THEN /\ cpPrefix' = Cut(cpPrefix, cpI)
              /\ cpK' = cpK + 1
              /\ cpPc' = "outer"
              /\ UNCHANGED cpI
       ELSE /\ cpI' = cpI + 1
            /\ UNCHANGED <<cpPrefix, cpK, cpPc>>
  /\ UNCHANGED <<cpStrs, cpStrRune, cpN, cpResult>>

NextCP ==
  /\ \/ CPEnter
     \/ CPOuter
     \/ CPInner
  /\ UNCHANGED hvars

SpecCP == InitCP /\ [][NextCP]_vars

(* ------------------------ claims on CommonPrefix ---------------------- *)
\* the code points of an address string: the sequence, of at most MaxRunes
\* code points, whose UTF-8 encoding it is
CodePoints(s) ==
  CHOOSE rs \in SeqsUpTo(Alphabet, MaxRunes) : String(rs) = s

IsPrefixOf(p, q) == Len(p) <= Len(q) /\ \A m \in 1..Len(p) : p[m] = q[m]

\* the longest sequence of code points every string of the list starts with
LongestShared(strs) ==
  LET first  == CodePoints(strs[1])
      shared == {n \in 0..Len(first) :
                   \A j \in 1..Len(strs) :
                     IsPrefixOf(SubSeq(first, 1, n), CodePoints(strs[j]))}
  IN  SubSeq(first, 1, CHOOSE n \in shared : \A m \in shared : m <= n)

AllIdentical(strs) == \A j \in 1..Len(strs) : strs[j] = strs[1]

\* C7, as stated: for any non-empty list of identical address strings,
\* CommonPrefix returns that string unchanged.
C7_IdenticalReturned ==
  (cpPc = "done" /\ Len(cpStrs) > 0 /\ AllIdentical(cpStrs))
    => cpResult = cpStrs[1]

\* C7, amended: for any non-empty list of identical address strings that are
\* not the empty string, CommonPrefix returns that string unchanged (for a
\* list of empty strings it returns "None").
C7_IdenticalNonEmptyReturned ==
  (cpPc = "done" /\ Len(cpStrs) > 0 /\ AllIdentical(cpStrs))
    => cpResult = (IF cpStrs[1] = <<>> THEN NoneStr ELSE cpStrs[1])

C7_Witness ==
  /\ cpPc = "done"
  /\ Len(cpStrs) = 3
  /\ AllIdentical(cpStrs)
  /\ Len(cpStrs[1]) = 6
  /\ cpResult = cpStrs[1]

\* C8: for every non-empty list, CommonPrefix returns the longest initial
\* sequence of code points shared by all strings when it is non-empty and
\* "None" when it is empty; "None" in particular when the strings do not all
\* share a first character.
C8_LongestSharedPrefix ==
  (cpPc = "done" /\ Len(cpStrs) > 0)
    => /\ cpResult = (IF LongestShared(cpStrs) = <<>> THEN NoneStr
                      ELSE String(LongestShared(cpStrs)))
       /\ (\E j \in 1..Len(cpStrs) :
             \/ cpStrs[j] = <<>>
             \/ cpStrs[1] = <<>>
             \/ CodePoints(cpStrs[j])[1] # CodePoints(cpStrs[1])[1])
          => cpResult = NoneStr

\* two strings that share their first character and differ in the second,
\* whose second characters share their first two bytes
C8_Witness ==
  /\ cpPc = "done"
  /\ Len(cpStrs) >= 2
  /\ Len(cpStrs[1]) = 6 /\ Len(cpStrs[2]) = 6
  /\ cpStrs[1] # cpStrs[2]
  /\ cpResult = SubSeq(cpStrs[1], 1, 3)
  /\ cpResult = SubSeq(cpStrs[2], 1, 3)

\* a bound on the steps CommonPrefix still takes: the turns of the outer
\* loop left, each at most two steps longer than the first string (the
\* prefix has at most as many runes as that string has bytes), plus the
\* turns left in the inner loop
StepsLeft ==
  LET n  == Len(cpStrs)
      p0 == IF n = 0 THEN 0 ELSE Len(cpStrs[1])
  IN  CASE cpPc = "start" -> n * (p0 + 2) + 2
        [] cpPc = "outer" -> (n - cpK) * (p0 + 2) + 1
        [] cpPc = "inner" -> (n - cpK - 1) * (p0 + 2) + (cpN - cpI) + 2
        [] OTHER          -> 0

\* C10: in CommonPrefix every comparison prefix[i] != strRune[i] has i below
\* len(prefix) and below len(strRune), no index is out of range, the prefix
\* never grows from one iteration to the next, and the call terminates:
\* every step leads to the return or to a statement that can execute (never
\* to a panic) and lowers a bound on the steps left, which is never negative.
C10_InRangeAndTerminates ==
  [][/\ cpPc' \in {"outer", "inner", "done"}
     /\ (cpPc' = "inner" /\ cpI' < cpN')
          => (cpI' < Len(cpPrefix') /\ cpI' < Len(cpStrRune'))
     /\ cpPc # "start" => Len(cpPrefix') <= Len(cpPrefix)
     /\ StepsLeft' < StepsLeft
     /\ StepsLeft' >= 0]_vars

\* a comparison against a string shorter than the first one
C10_Witness ==
  /\ cpPc = "inner"
  /\ cpI < cpN
  /\ cpK >= 1
  /\ Len(cpStrRune) < Len(Runes(cpStrs[1]))
  /\ Len(cpStrRune) >= 1

(* ------------------------ claims on the handlers ---------------------- *)
IsAddress(r) == req[r].kind = "address"
IsAccessLogs(r) == req[r].kind = "access_logs"

\* C1: a request issues the geocoding GET only after its own insert returned
\* without error; when the insert fails the request answers 500 and stops
\* without any GET.
C1_InsertBeforeGet ==
  \A r \in DOMAIN req :
    /\ req[r].nGet > 0 => (req[r].nInsert = 1 /\ req[r].insertOk)
    /\ (IsAddress(r) /\ req[r].nInsert > 0 /\ ~req[r].insertOk)
         => /\ req[r].pc = "done"
            /\ req[r].status = 500
            /\ req[r].resp = ErrorBody
            /\ req[r].nGet = 0

\* one request has issued its GET after its insert, another has stopped on
\* the failure of its insert
C1_Witness ==
  \E r, q \in DOMAIN req :
    /\ req[r].nGet = 1 /\ req[r].insertOk
    /\ IsAddress(q) /\ ~req[q].insertOk /\ req[q].status = 500 /\ req[q].nGet = 0

\* C2: the access log is append-only under every interleaving of the two
\* handlers: every step leaves the rows there are in place and unchanged,
\* also the step in which a request whose insert succeeded answers 500.
C2_AppendOnly == [][IsPrefixOf(access_logs, access_logs')]_vars

\* the request inserted its row, its geocoding step failed and it answered
\* 500; the row is in the table
C2_Witness ==
  \E r \in DOMAIN req :
    /\ IsAddress(r) /\ req[r].insertOk /\ req[r].status = 500
    /\ ~(req[r].getOk /\ req[r].readOk /\ req[r].parseOk)
    /\ \E i \in DOMAIN access_logs :
         /\ access_logs[i].postal_code = req[r].postalCode
         /\ access_logs[i].created_at >= 1

\* the rows written since the process started (the older ones carry
\* created_at 0) for postal code p
RowsWritten(p) ==
  {i \in DOMAIN access_logs :
     access_logs[i].postal_code = p /\ access_logs[i].created_at >= 1}

\* the requests for postal code p whose insert succeeded
Inserted(p) ==
  {r \in DOMAIN req : IsAddress(r) /\ req[r].postalCode = p /\ req[r].insertOk}

\* C3: each /address request writes exactly one row with its postal code
\* when its insert succeeds and none when it fails, whatever happens later in
\* the request: the number of rows written for a postal code is the number
\* of requests for that code whose insert succeeded.
C3_OneRowPerInsert ==
  \A p \in PostalCodes : Cardinality(RowsWritten(p)) = Cardinality(Inserted(p))

\* two finished requests for the same code, one answered 200 and one 500
\* after its insert, and two rows written for that code
C3_Witness ==
  \E r, q \in DOMAIN req :
    /\ r # q
    /\ IsAddress(r) /\ IsAddress(q)
    /\ req[r].postalCode = req[q].postalCode
    /\ req[r].insertOk /\ req[q].insertOk
    /\ req[r].status = 200 /\ req[q].status = 500
    /\ Cardinality(RowsWritten(req[r].postalCode)) = 2

\* a coordinate field read leniently: zero when it does not parse
CoordOrZero(s) == IF s \in {"139.7528", "35.685175"} THEN ParseFloat(s).val ELSE 0

\* the largest distance of the locations with their coordinates read
\* leniently, 0 for no location
LenientMax(location) ==
  LET ds == {HaversineM(tokyoY, tokyoX, CoordOrZero(location[i].y),
                        CoordOrZero(location[i].x)) : i \in DOMAIN location}
            \cup {0}
  IN  CHOOSE d \in ds : \A e \in ds : e <= d

AllOk(r) == req[r].insertOk /\ req[r].getOk /\ req[r].readOk /\ req[r].parseOk

RowsFor(table, p) == SelectSeq(table, LAMBDA row : row.postal_code = p)

\* C5: a successful /address/access_logs request returns exactly one pair
\* for each postal code of the access log as the query read it, with the
\* number of rows of that code as request_count, and no pair is followed by
\* a pair with a larger count.
C5_SummaryExact ==
  \A r \in DOMAIN req :
    (IsAccessLogs(r) /\ req[r].status = 200) =>
      LET e == req[r].resp.access_logs.elems
      IN  /\ \A i \in DOMAIN e :
               /\ e[i].request_count = Len(RowsFor(req[r].seen, e[i].postal_code))
               /\ e[i].request_count >= 1
               /\ \A j \in DOMAIN e : e[j].postal_code = e[i].postal_code => j = i
          /\ \A k \in DOMAIN req[r].seen :
               \E i \in DOMAIN e : e[i].postal_code = req[r].seen[k].postal_code
          /\ \A i, j \in DOMAIN e : i < j => e[i].request_count >= e[j].request_count

\* a summary of two codes with different counts, one row of which was
\* written by a request of this run
C5_Witness ==
  \E r \in DOMAIN req :
    /\ IsAccessLogs(r) /\ req[r].status = 200
    /\ Len(req[r].resp.access_logs.elems) = 2
    /\ req[r].resp.access_logs.elems[1].request_count = 2
    /\ req[r].resp.access_logs.elems[2].request_count = 1
    /\ \E k \in DOMAIN req[r].seen : req[r].seen[k].created_at >= 1

\* C6, as stated: when the access log holds no rows, a successful
\* /address/access_logs request answers 200 with access_logs an empty list,
\* neither absent nor null.
C6_EmptyListWhenNoRows ==
  \A r \in DOMAIN req :
    (IsAccessLogs(r) /\ req[r].status = 200 /\ req[r].seen = <<>>)
      => req[r].resp.access_logs = [type |-> "array", elems |-> <<>>]

\* C9: a geocoding answer that parses to zero locations is not an error: the
\* request answers 200 with hit_count 0, the address "Error: func
\* commonPrefix" and distance 0; every 200 answer carries the number of
\* locations parsed as hit_count.
C9_ZeroLocations ==
  \A r \in DOMAIN req :
    (IsAddress(r) /\ req[r].pc = "done") =>
      /\ (req[r].readOk /\ req[r].body.kind # "malformed"
            /\ req[r].body.location = <<>>)
           => /\ req[r].status = 200
              /\ req[r].resp.hit_count = 0
              /\ req[r].resp.address = ErrorStr
              /\ req[r].resp.tokyo_sta_distance = 0
      /\ req[r].status = 200
           => /\ req[r].resp.hit_count = Len(req[r].location)
              /\ req[r].location = req[r].body.location

\* a 200 answer to an envelope without a location key
C9_Witness ==
  \E r \in DOMAIN req :
    /\ req[r].status = 200
    /\ req[r].body.kind = "no_location"
    /\ req[r].resp.hit_count = 0
    /\ req[r].resp.address = ErrorStr

====
